---- MODULE Spec2Model ----
(***************************************************************************)
(* Model of the wake-word / sleep-word speech-to-text session of           *)
(* sugo29/wakeword: src/stt_module.py (class STTModule), src/config.py     *)
(* and the CLI harness src/test_cli.py.                                    *)
(*                                                                         *)
(* A frame is one audio chunk as the stream delivers it: CHUNK_SIZE        *)
(* samples of SAMPLE_WIDTH bytes.  Frames are named by their arrival       *)
(* number, so that a buffer or a submission to the transcription engine    *)
(* shows which frames it holds and in which order.  The wake-word          *)
(* detector and the Whisper model are external: what they answer for a     *)
(* frame or a buffer is an input of the operation that consults them.      *)
(***************************************************************************)
EXTENDS Integers, Sequences, FiniteSets, TLC

\* ---------------------------------------------------------------- config.py
SAMPLE_RATE == 16000
CHUNK_SIZE == 512
CHANNELS == 1
REALTIME_CHUNK_DURATION == 2
\* MIN_AUDIO_LENGTH = 0.5 seconds, in milliseconds to stay within the integers
MIN_AUDIO_LENGTH_MS == 500
SLEEP_WORD == <<"b", "y", "e">>
\* paInt16: 2 bytes per sample
SAMPLE_WIDTH == 2

\* ------------------------------------------------------------------- bounds
\* frames the audio source delivers in one behaviour
MaxFrames == 66
\* seconds the clock of run() is followed for
MaxClock == 2
\* frames of one behaviour of the streaming specification: two full flush
\* periods after an activation
MaxStreamFrames == 126

\* frames read by the runs of a caller of the listening operations
MaxListenFrames == 5

\* ------------------------------------------------------------ text (str) ops
\* the upper-case letters and what str.lower() makes of them
LowerOf ==
    [A |-> "a", B |-> "b", C |-> "c", D |-> "d", E |-> "e", F |-> "f",
     G |-> "g", H |-> "h", I |-> "i", J |-> "j", K |-> "k", L |-> "l",
     M |-> "m", N |-> "n", O |-> "o", P |-> "p", Q |-> "q", R |-> "r",
     S |-> "s", T |-> "t", U |-> "u", V |-> "v", W |-> "w", X |-> "x",
     Y |-> "y", Z |-> "z"]

\* str.lower(): a string is a sequence of one-character strings
str_lower(text) ==
    [i \in 1..Len(text) |-> IF text[i] \in DOMAIN LowerOf THEN LowerOf[text[i]] ELSE text[i]]

Whitespace == {" ", "\t", "\n"}

\* str.strip(): drops the leading and the trailing whitespace
RECURSIVE str_lstrip(_)
str_lstrip(text) ==
    IF text # <<>> /\ Head(text) \in Whitespace THEN str_lstrip(Tail(text)) ELSE text

RECURSIVE str_rstrip(_)
str_rstrip(text) ==
    IF text # <<>> /\ text[Len(text)] \in Whitespace
    THEN str_rstrip(SubSeq(text, 1, Len(text) - 1))
    ELSE text

str_strip(text) == str_rstrip(str_lstrip(text))

\* needle in hay (substring test of str)
str_contains(needle, hay) ==
    \E i \in 0..(Len(hay) - Len(needle)) : SubSeq(hay, i + 1, i + Len(needle)) = needle

\* what a call gives back: a value, or an exception that leaves the call
NoExc == "none"
Return(v) == [value |-> v, exc |-> NoExc]
Raise(e) == [value |-> FALSE, exc |-> e]

\* Optional[str]
None == [is_none |-> TRUE, text |-> <<>>]
Some(text) == [is_none |-> FALSE, text |-> text]

\* ------------------------------------------------ answers of the externals
\* what whisper_model.transcribe gives for a buffer: it raises, or result["text"]
RawTexts ==
    { <<>>,
      <<" ", " ">>,
      <<" ", "h", "e", "l", "l", "o", " ">>,
      <<"b", "y", " ", "t", "h", "e", " ", "w", "a", "y">>,
      <<"B", "Y", "E">>,
      <<" ", "t", "i", "m", "e", " ", "t", "o", " ", "s", "a", "y", " ",
        "B", "y", "E", " ", "n", "o", "w">> }

\* (interrupt: what is raised is a KeyboardInterrupt, not an Exception)
WhisperOutcomes ==
    {[raises |-> TRUE, interrupt |-> FALSE, text |-> <<>>]}
        \cup {[raises |-> FALSE, interrupt |-> FALSE, text |-> t] : t \in RawTexts}

\* Ctrl+C arrives while whisper_model.transcribe runs
WhisperInterrupt == [raises |-> TRUE, interrupt |-> TRUE, text |-> <<>>]

\* what porcupine.process gives for a frame: it raises, or a keyword index
\* (-1: no keyword, 0: the one keyword of keywords=["porcupine"])
PorcupineOutcomes ==
    {[raises |-> TRUE, interrupt |-> FALSE, keyword_index |-> -1],
     [raises |-> FALSE, interrupt |-> FALSE, keyword_index |-> -1],
     [raises |-> FALSE, interrupt |-> FALSE, keyword_index |-> 0]}

\* Ctrl+C arrives while porcupine.process runs
PorcupineInterrupt == [raises |-> TRUE, interrupt |-> TRUE, keyword_index |-> -1]

\* what pvporcupine.create does in the constructor
CreateOutcomes == {"created", "raises"}

\* how far the constructor gets before _init_porcupine: whisper.load_model or
\* pyaudio.PyAudio() may raise
ConstructOutcomes == {"ok", "whisper_raises", "pyaudio_raises"}

\* what audio.open does in start_listening
OpenOutcomes == {"opened", "raises"}

\* the duration argument of run(): None or a number of seconds
NoDuration == [is_none |-> TRUE, value |-> 0]
Durations == {NoDuration} \cup {[is_none |-> FALSE, value |-> v] : v \in 0..(MaxClock - 1)}

\* ------------------------------------------------------------------- state
VARIABLES
    is_active,      \* self.is_active
    audio_buffer,   \* self.audio_buffer: the buffered frames, oldest first
    porcupine,      \* self.porcupine: PorcupineNone or a detector handle
    on_transcript,  \* self.on_transcript: TRUE iff a callback was supplied
    stream,         \* self.stream: "none" or "open"
    is_listening,   \* self.is_listening
    open_streams,   \* the streams of self.audio that are open at the device
    audio,          \* self.audio: "none" before PyAudio(), "ready", "terminated"
    pc,             \* where the caller of the session is
    duration,       \* the duration argument of the running run()
    elapsed,        \* time.time() - start_time of the running run(), in seconds
    run_exit,       \* how run() ended: "none" while it has not
    frames_read,    \* frames the audio source has delivered so far
    last,           \* the last operation and what it did to the externals
    quiet,          \* history: only process_audio_chunk ran, no wake word found
    asr_called,     \* history: the transcription engine was invoked
    cb_called,      \* history: the transcript callback was invoked
    track,          \* whether this behaviour keeps the history below
    history         \* history: woke_at, the frame count at the latest activation
                    \* of an active session, 0 for an idle one;
                    \* once, the frames submitted to the engine so far;
                    \* again, the frames submitted more than once

vars == <<is_active, audio_buffer, porcupine, on_transcript, stream, is_listening,
          open_streams, audio, pc, duration, elapsed, run_exit, frames_read, last,
          quiet, asr_called, cb_called, track, history>>

session == <<is_active, audio_buffer, last, quiet, asr_called, cb_called, track, history>>
listening == <<stream, is_listening, open_streams>>
running == <<pc, duration, elapsed, run_exit>>

PorcupineNone == [exists |-> FALSE, frame_length |-> 0, deleted |-> FALSE]

\* the session fields an operation works on, with the log of what the
\* operation did to the externals:
\*   asr: the calls of whisper_model.transcribe, [audio_data, w] each
\*   cb:  the calls of on_transcript, with the session as the callback sees it
\*   det: the calls of detect_wake_word, [chunk, d, result] each, d being what
\*        porcupine.process has to say of the chunk
\*   exc: the exception the operation ends with, NoExc when it returns
Self ==
    [is_active |-> is_active, audio_buffer |-> audio_buffer,
     asr |-> <<>>, cb |-> <<>>, det |-> <<>>, exc |-> NoExc]

\* ------------------------------------------------------------ STTModule
\* _init_porcupine: a failing pvporcupine.create leaves self.porcupine None.
\* Porcupine's frame length is 512 samples, the CHUNK_SIZE of config.py.
init_porcupine(o) ==
    IF o = "raises" THEN PorcupineNone
    ELSE [exists |-> TRUE, frame_length |-> CHUNK_SIZE, deleted |-> FALSE]

\* the stream fields start_listening and stop_listening work on
Listening ==
    [stream |-> stream, is_listening |-> is_listening, open_streams |-> open_streams,
     exc |-> NoExc]

\* mutant: start_listening without its "if self.stream is None"
start_listening_always_opens(l, o) ==
    IF o = "raises" THEN [l EXCEPT !.exc = "OSError"]
    ELSE [l EXCEPT !.stream = "open", !.is_listening = TRUE,
                   !.open_streams = @ + 1]

\* start_listening: opens a stream only when there is none; a failing
\* audio.open leaves the call before is_listening is set
start_listening(l, o) ==
    IF l.stream = "none"
    THEN IF o = "raises" THEN [l EXCEPT !.exc = "OSError"]
         ELSE [l EXCEPT !.stream = "open", !.is_listening = TRUE,
                        !.open_streams = @ + 1]
    ELSE [l EXCEPT !.is_listening = TRUE]

\* mutant: stop_listening clears the flag and leaves the stream open
stop_listening_leaves_stream(l) == [l EXCEPT !.is_listening = FALSE]

\* stop_listening: stops and closes the stream when there is one
stop_listening(l) ==
    IF l.stream # "none"
    THEN [l EXCEPT !.is_listening = FALSE, !.stream = "none", !.open_streams = @ - 1]
    ELSE [l EXCEPT !.is_listening = FALSE]

\* the "if self.porcupine: self.porcupine.delete()" of cleanup
delete_porcupine(p) == IF p.exists THEN [p EXCEPT !.deleted = TRUE] ELSE p

activate(s) == [s EXCEPT !.is_active = TRUE, !.audio_buffer = <<>>]

\* mutant: deactivate forgets to clear the buffer
deactivate_keeps_buffer(s) == [s EXCEPT !.is_active = FALSE]

deactivate(s) == [s EXCEPT !.is_active = FALSE, !.audio_buffer = <<>>]

\* mutant: detect_wake_word without the "porcupine is None" guard
detect_wake_word_no_none_check(p, d) ==
    IF d.raises THEN (IF d.interrupt THEN Raise("KeyboardInterrupt") ELSE Return(FALSE))
    ELSE IF CHUNK_SIZE >= p.frame_length THEN Return(d.keyword_index >= 0)
    ELSE Return(FALSE)

\* mutant: detect_wake_word without its try/except
detect_wake_word_no_catch(p, d) ==
    IF ~p.exists THEN Return(FALSE)
    ELSE IF d.raises THEN Raise(IF d.interrupt THEN "KeyboardInterrupt" ELSE "Exception")
    ELSE IF CHUNK_SIZE >= p.frame_length THEN Return(d.keyword_index >= 0)
    ELSE Return(FALSE)

\* detect_wake_word: False without a detector, on a short frame, and when
\* porcupine.process raises (except Exception: the error is printed; a
\* KeyboardInterrupt is no Exception and leaves the call)
detect_wake_word(p, d) ==
    IF ~p.exists THEN Return(FALSE)
    ELSE IF d.raises THEN (IF d.interrupt THEN Raise("KeyboardInterrupt") ELSE Return(FALSE))
    ELSE IF CHUNK_SIZE >= p.frame_length THEN Return(d.keyword_index >= 0)
    ELSE Return(FALSE)

\* mutant: the sleep word is looked for without lower-casing the text
detect_sleep_word_case_sensitive(text) == str_contains(SLEEP_WORD, text)

detect_sleep_word(text) == str_contains(str_lower(SLEEP_WORD), str_lower(text))

\* mutant: transcribe_audio without its try/except
transcribe_audio_no_catch(w) ==
    IF w.raises THEN Raise(IF w.interrupt THEN "KeyboardInterrupt" ELSE "Exception")
    ELSE LET text == str_strip(w.text)
         IN IF text # <<>> THEN Return(Some(text)) ELSE Return(None)

\* transcribe_audio: None when the model raises (except Exception: the error
\* is printed; a KeyboardInterrupt is no Exception and leaves the call) or the
\* stripped text is empty
transcribe_audio(w) ==
    IF w.raises THEN (IF w.interrupt THEN Raise("KeyboardInterrupt") ELSE Return(None))
    ELSE LET text == str_strip(w.text)
         IN IF text # <<>> THEN Return(Some(text)) ELSE Return(None)

\* bytes of the concatenation of the buffered frames
AudioBytes(frames) == Len(frames) * CHUNK_SIZE * CHANNELS * SAMPLE_WIDTH

\* mutant: the duration divides by SAMPLE_RATE, forgetting the 2 bytes per sample
TooShort_forgets_width(audio_data) ==
    AudioBytes(audio_data) * 1000 < MIN_AUDIO_LENGTH_MS * SAMPLE_RATE

\* duration < config.MIN_AUDIO_LENGTH, duration = len(audio_data) / (SAMPLE_RATE * 2)
TooShort(audio_data) ==
    AudioBytes(audio_data) * 1000 < MIN_AUDIO_LENGTH_MS * (SAMPLE_RATE * 2)

\* the callback, when one was supplied, sees the session as it is by then
call_on_transcript(s, cbk, text) ==
    IF cbk
    THEN [s EXCEPT !.cb = Append(@, [text |-> text, is_active |-> s.is_active,
                                     audio_buffer |-> s.audio_buffer])]
    ELSE s

\* mutant: _process_buffer tests the length before it empties the buffer
process_buffer_keeps_short(s, cbk, w) ==
    IF s.audio_buffer = <<>> THEN s
    ELSE LET audio_data == s.audio_buffer
             s1 == [s EXCEPT !.audio_buffer = <<>>]
         IN IF TooShort(audio_data) THEN s
            ELSE LET r == transcribe_audio(w)
                     text == r.value
                     s2 == [s1 EXCEPT !.asr = Append(@, [audio_data |-> audio_data, w |-> w])]
                 IN IF r.exc # NoExc THEN [s2 EXCEPT !.exc = r.exc]
                    ELSE IF text.is_none THEN s2
                    ELSE call_on_transcript(
                             IF detect_sleep_word(text.text) THEN deactivate(s2) ELSE s2,
                             cbk, text.text)

\* mutant: _process_buffer forgets to empty the buffer
process_buffer_keeps_buffer(s, cbk, w) ==
    IF s.audio_buffer = <<>> THEN s
    ELSE LET audio_data == s.audio_buffer
         IN IF TooShort(audio_data) THEN s
            ELSE LET r == transcribe_audio(w)
                     text == r.value
                     s2 == [s EXCEPT !.asr = Append(@, [audio_data |-> audio_data, w |-> w])]
                 IN IF r.exc # NoExc THEN [s2 EXCEPT !.exc = r.exc]
                    ELSE IF text.is_none THEN s2
                    ELSE call_on_transcript(
                             IF detect_sleep_word(text.text) THEN deactivate(s2) ELSE s2,
                             cbk, text.text)

\* mutant: _process_buffer returns right after deactivate()
process_buffer_sleep_skips_callback(s, cbk, w) ==
    IF s.audio_buffer = <<>> THEN s
    ELSE LET audio_data == s.audio_buffer
             s1 == [s EXCEPT !.audio_buffer = <<>>]
         IN IF TooShort(audio_data) THEN s1
            ELSE LET r == transcribe_audio(w)
                     text == r.value
                     s2 == [s1 EXCEPT !.asr = Append(@, [audio_data |-> audio_data, w |-> w])]
                 IN IF r.exc # NoExc THEN [s2 EXCEPT !.exc = r.exc]
                    ELSE IF text.is_none THEN s2
                    ELSE IF detect_sleep_word(text.text) THEN deactivate(s2)
                    ELSE call_on_transcript(s2, cbk, text.text)

\* mutant: _process_buffer calls the callback before it looks for the sleep word
process_buffer_callback_first(s, cbk, w) ==
    IF s.audio_buffer = <<>> THEN s
    ELSE LET audio_data == s.audio_buffer
             s1 == [s EXCEPT !.audio_buffer = <<>>]
         IN IF TooShort(audio_data) THEN s1
            ELSE LET r == transcribe_audio(w)
                     text == r.value
                     s2 == [s1 EXCEPT !.asr = Append(@, [audio_data |-> audio_data, w |-> w])]
                 IN IF r.exc # NoExc THEN [s2 EXCEPT !.exc = r.exc]
                    ELSE IF text.is_none THEN s2
                    ELSE LET s3 == call_on_transcript(s2, cbk, text.text)
                         IN IF detect_sleep_word(text.text) THEN deactivate(s3) ELSE s3

\* _process_buffer
process_buffer(s, cbk, w) ==
    IF s.audio_buffer = <<>> THEN s
    ELSE LET audio_data == s.audio_buffer
             s1 == [s EXCEPT !.audio_buffer = <<>>]
         IN IF TooShort(audio_data) THEN s1
            ELSE LET r == transcribe_audio(w)
                     text == r.value
                     s2 == [s1 EXCEPT !.asr = Append(@, [audio_data |-> audio_data, w |-> w])]
                 IN IF r.exc # NoExc THEN [s2 EXCEPT !.exc = r.exc]
                    ELSE IF text.is_none THEN s2
                    ELSE call_on_transcript(
                             IF detect_sleep_word(text.text) THEN deactivate(s2) ELSE s2,
                             cbk, text.text)

\* mutant: the buffered duration is taken from the bytes, not the samples
FlushDue_counts_bytes(buf) == AudioBytes(buf) >= REALTIME_CHUNK_DURATION * SAMPLE_RATE

\* mutant: the duration is tested before the new frame is appended
FlushDue_before_append(buf) ==
    (Len(buf) - 1) * CHUNK_SIZE >= REALTIME_CHUNK_DURATION * SAMPLE_RATE

\* buffer_duration >= config.REALTIME_CHUNK_DURATION,
\* buffer_duration = len(self.audio_buffer) * CHUNK_SIZE / SAMPLE_RATE
FlushDue(buf) == Len(buf) * CHUNK_SIZE >= REALTIME_CHUNK_DURATION * SAMPLE_RATE

\* mutant: frames are buffered while idle too
process_audio_chunk_buffers_idle(s, p, cbk, chunk, d, w) ==
    LET s0 == [s EXCEPT !.audio_buffer = Append(@, chunk)]
    IN IF ~s.is_active
       THEN LET r == detect_wake_word(p, d)
                s1 == [s0 EXCEPT !.det = Append(@, [chunk |-> chunk, d |-> d, result |-> r.value]),
                                 !.exc = r.exc]
            IN IF r.exc = NoExc /\ r.value THEN activate(s1) ELSE s1
       ELSE IF FlushDue(s0.audio_buffer) THEN process_buffer(s0, cbk, w) ELSE s0

\* mutant: the frame that carries the wake word is buffered after activation
process_audio_chunk_keeps_wake_frame(s, p, cbk, chunk, d, w) ==
    IF ~s.is_active
    THEN LET r == detect_wake_word(p, d)
             s1 == [s EXCEPT !.det = Append(@, [chunk |-> chunk, d |-> d, result |-> r.value]),
                             !.exc = r.exc]
         IN IF r.exc = NoExc /\ r.value
            THEN [activate(s1) EXCEPT !.audio_buffer = <<chunk>>]
            ELSE s1
    ELSE LET s1 == [s EXCEPT !.audio_buffer = Append(@, chunk)]
         IN IF FlushDue(s1.audio_buffer) THEN process_buffer(s1, cbk, w) ELSE s1

\* mutant: the detector is consulted for the frames of an active session too
process_audio_chunk_always_detects(s, p, cbk, chunk, d, w) ==
    LET r == detect_wake_word(p, d)
        s0 == [s EXCEPT !.det = Append(@, [chunk |-> chunk, d |-> d, result |-> r.value]),
                        !.exc = r.exc]
    IN IF r.exc = NoExc /\ r.value THEN activate(s0)
       ELSE IF ~s.is_active THEN s0
       ELSE LET s1 == [s0 EXCEPT !.audio_buffer = Append(@, chunk)]
            IN IF FlushDue(s1.audio_buffer) THEN process_buffer(s1, cbk, w) ELSE s1

\* process_audio_chunk
process_audio_chunk(s, p, cbk, chunk, d, w) ==
    IF ~s.is_active
    THEN LET r == detect_wake_word(p, d)
             s1 == [s EXCEPT !.det = Append(@, [chunk |-> chunk, d |-> d, result |-> r.value]),
                             !.exc = r.exc]
         IN IF r.exc = NoExc /\ r.value THEN activate(s1) ELSE s1
    ELSE LET s1 == [s EXCEPT !.audio_buffer = Append(@, chunk)]
         IN IF FlushDue(s1.audio_buffer) THEN process_buffer(s1, cbk, w) ELSE s1

\* ----------------------------------------------------------------- actions
NoHistory == [woke_at |-> 0, once |-> {}, again |-> {}]

\* the frames of the submissions in the log asr
RECURSIVE SubmittedFrames(_)
SubmittedFrames(asr) ==
    IF asr = <<>> THEN {}
    ELSE {Head(asr).audio_data[i] : i \in 1..Len(Head(asr).audio_data)}
             \cup SubmittedFrames(Tail(asr))

\* the frames that the submissions of the log asr hold twice, among themselves
\* or with the frames of seen
RECURSIVE Resubmitted(_, _)
Resubmitted(asr, seen) ==
    IF asr = <<>> THEN {}
    ELSE LET a == Head(asr).audio_data
             fs == {a[i] : i \in 1..Len(a)}
         IN (fs \cap seen)
                \cup {a[i] : i \in {j \in 1..Len(a) : \E k \in 1..(j - 1) : a[k] = a[j]}}
                \cup Resubmitted(Tail(asr), seen \cup fs)

\* the history after an operation that ends with the session fields s; chunk
\* is the frame the operation was given, 0 when it was given none
NextHistory(op, chunk, s) ==
    [woke_at |-> IF ~s.is_active THEN 0
                 ELSE IF op = "activate" \/ ~is_active
                 THEN (IF chunk # 0 THEN chunk ELSE frames_read)
                 ELSE history.woke_at,
     once |-> history.once \cup SubmittedFrames(s.asr),
     again |-> history.again \cup Resubmitted(s.asr, history.once)]

\* what an operation leaves behind: the session fields and the record of the call
Done(op, chunk, s) ==
    /\ track' = track
    /\ history' = IF track THEN NextHistory(op, chunk, s) ELSE history
    /\ is_active' = s.is_active
    /\ audio_buffer' = s.audio_buffer
    /\ last' = [op |-> op, chunk |-> chunk,
                pre_active |-> is_active, pre_buffer |-> audio_buffer,
                pre_stream |-> stream,
                asr |-> s.asr, cb |-> s.cb, det |-> s.det, exc |-> s.exc]
    /\ asr_called' = (asr_called \/ s.asr # <<>>)
    /\ cb_called' = (cb_called \/ s.cb # <<>>)

NoCall ==
    [op |-> "init", chunk |-> 0, pre_active |-> FALSE, pre_buffer |-> <<>>,
     pre_stream |-> "none",
     asr |-> <<>>, cb |-> <<>>, det |-> <<>>, exc |-> NoExc]

\* the state after STTModule.__init__
Init ==
    /\ is_active = FALSE
    /\ audio_buffer = <<>>
    /\ \E o \in CreateOutcomes : porcupine = init_porcupine(o)
    /\ on_transcript \in BOOLEAN
    /\ stream = "none"
    /\ is_listening = FALSE
    /\ open_streams = 0
    /\ audio = "ready"
    /\ pc = "constructed"
    /\ duration = NoDuration
    /\ elapsed = 0
    /\ run_exit = "none"
    /\ frames_read = 0
    /\ last = NoCall
    /\ quiet = TRUE
    /\ asr_called = FALSE
    /\ cb_called = FALSE
    /\ track = FALSE
    /\ history = NoHistory

\* the externals answer when they are asked: porcupine.process for a frame of
\* an idle session, whisper_model.transcribe for a buffer
\* that is due; the answer of an external that is not asked is left blank
PorcupineSilent == [raises |-> FALSE, interrupt |-> FALSE, keyword_index |-> -1]
WhisperSilent == [raises |-> FALSE, interrupt |-> FALSE, text |-> <<>>]

PorcupineAsked(D) == IF ~is_active THEN D ELSE {PorcupineSilent}

WhisperAsked(W) ==
    IF is_active /\ FlushDue(Append(audio_buffer, frames_read + 1)) THEN W
    ELSE {WhisperSilent}

\* a caller hands the next frame of the source to process_audio_chunk, the
\* source delivering bound frames at most
Chunk(bound) ==
    /\ frames_read < bound
    /\ frames_read' = frames_read + 1
    /\ \E d \in PorcupineAsked(PorcupineOutcomes), w \in WhisperAsked(WhisperOutcomes) :
         LET s == process_audio_chunk(Self, porcupine, on_transcript, frames_read + 1, d, w)
         IN /\ Done("process_audio_chunk", frames_read + 1, s)
            /\ quiet' = (quiet /\ \A i \in 1..Len(s.det) : ~s.det[i].result)
    /\ UNCHANGED <<porcupine, on_transcript, listening, audio, running>>

ProcessAudioChunk == Chunk(MaxFrames)

Activate ==
    /\ Done("activate", 0, activate(Self))
    /\ quiet' = FALSE
    /\ UNCHANGED <<porcupine, on_transcript, listening, audio, running, frames_read>>

Deactivate ==
    /\ Done("deactivate", 0, deactivate(Self))
    /\ quiet' = FALSE
    /\ UNCHANGED <<porcupine, on_transcript, listening, audio, running, frames_read>>

\* a direct call of _process_buffer
ProcessBuffer ==
    /\ \E w \in WhisperOutcomes :
         Done("process_buffer", 0, process_buffer(Self, on_transcript, w))
    /\ quiet' = FALSE
    /\ UNCHANGED <<porcupine, on_transcript, listening, audio, running, frames_read>>

Next ==
    \/ ProcessAudioChunk
    \/ Activate
    \/ Deactivate
    \/ ProcessBuffer

Spec == Init /\ [][Next]_vars

\* -------------------------------------------- a stream of frames, with history
\* a session with a detector and a callback, as main() makes it, that is fed
\* the frames of the source one by one, with activate() and deactivate() called
\* at any time between two frames
InitStream ==
    /\ is_active = FALSE
    /\ audio_buffer = <<>>
    /\ porcupine = init_porcupine("created")
    /\ on_transcript = TRUE
    /\ stream = "none"
    /\ is_listening = FALSE
    /\ open_streams = 0
    /\ audio = "ready"
    /\ pc = "constructed"
    /\ duration = NoDuration
    /\ elapsed = 0
    /\ run_exit = "none"
    /\ frames_read = 0
    /\ last = NoCall
    /\ quiet = TRUE
    /\ asr_called = FALSE
    /\ cb_called = FALSE
    /\ track = TRUE
    /\ history = NoHistory

StreamChunk == Chunk(MaxStreamFrames)

NextStream ==
    \/ StreamChunk
    \/ Activate
    \/ Deactivate

SpecStream == InitStream /\ [][NextStream]_vars

\* ------------------------------------------------- the CLI harness, main()
\* before main() constructs the session
InitMain ==
    /\ is_active = FALSE
    /\ audio_buffer = <<>>
    /\ porcupine = PorcupineNone
    /\ on_transcript = TRUE
    /\ stream = "none"
    /\ is_listening = FALSE
    /\ open_streams = 0
    /\ audio = "none"
    /\ pc = "main"
    /\ duration = NoDuration
    /\ elapsed = 0
    /\ run_exit = "none"
    /\ frames_read = 0
    /\ last = NoCall
    /\ quiet = TRUE
    /\ asr_called = FALSE
    /\ cb_called = FALSE
    /\ track = FALSE
    /\ history = NoHistory

\* stt = STTModule(...): when __init__ raises, main() has no stt to clean up
MainConstruct ==
    /\ pc = "main"
    /\ \E c \in ConstructOutcomes, o \in CreateOutcomes :
         IF c = "ok"
         THEN /\ porcupine' = init_porcupine(o)
              /\ audio' = "ready"
              /\ pc' = "constructed"
         ELSE /\ pc' = "exited"
              /\ UNCHANGED <<porcupine, audio>>
    /\ UNCHANGED <<session, on_transcript, listening, duration, elapsed, run_exit,
                   frames_read>>

\* audio.open answers while the device library is initialised; after
\* audio.terminate() it raises
OpenAsked(O) == IF audio = "ready" THEN O ELSE {"raises"}

\* run(duration) up to its loop: start_listening() and start_time; an
\* exception of audio.open leaves run() before its try statement
RunCall(from) ==
    /\ pc \in from
    /\ \E dur \in Durations, o \in OpenAsked(OpenOutcomes) :
         LET l == start_listening(Listening, o)
         IN /\ stream' = l.stream
            /\ is_listening' = l.is_listening
            /\ open_streams' = l.open_streams
            /\ duration' = dur
            /\ IF l.exc # NoExc
               THEN pc' = "run_raised" /\ run_exit' = "open_error"
               ELSE pc' = "loop" /\ run_exit' = "none"
    /\ elapsed' = 0
    /\ UNCHANGED <<session, porcupine, on_transcript, audio, frames_read>>

\* main() calls stt.run() once, on the session it has just constructed
RunStart == RunCall({"constructed"})

\* "if duration and (time.time() - start_time) > duration"
Expired == ~duration.is_none /\ duration.value # 0 /\ elapsed > duration.value

\* mutant: run() without its "except KeyboardInterrupt" clause
RunFinally_interrupt_propagates(how) ==
    LET l == stop_listening(Listening)
    IN /\ stream' = l.stream
       /\ is_listening' = l.is_listening
       /\ open_streams' = l.open_streams
       /\ run_exit' = how
       /\ pc' = IF how = "expired" THEN "run_returned" ELSE "run_raised"

\* the except and finally clauses of run(): a KeyboardInterrupt is caught,
\* stop_listening() runs, then run() returns or the exception goes on to the
\* caller
RunFinally(how) ==
    LET l == stop_listening(Listening)
    IN /\ stream' = l.stream
       /\ is_listening' = l.is_listening
       /\ open_streams' = l.open_streams
       /\ run_exit' = how
       /\ pc' = IF how \in {"expired", "interrupt"} THEN "run_returned" ELSE "run_raised"

\* one pass of the loop of run() that reads a frame and processes it
RunIteration ==
    /\ pc = "loop"
    /\ is_listening
    /\ ~Expired
    /\ stream = "open"
    /\ frames_read < MaxFrames
    /\ frames_read' = frames_read + 1
    /\ \E d \in PorcupineAsked(PorcupineOutcomes \cup {PorcupineInterrupt}),
          w \in WhisperAsked(WhisperOutcomes \cup {WhisperInterrupt}) :
         LET s == process_audio_chunk(Self, porcupine, on_transcript, frames_read + 1, d, w)
         IN /\ Done("process_audio_chunk", frames_read + 1, s)
            /\ quiet' = (quiet /\ \A i \in 1..Len(s.det) : ~s.det[i].result)
            /\ IF s.exc = "KeyboardInterrupt" THEN RunFinally("interrupt")
               ELSE IF s.exc # NoExc THEN RunFinally("error")
               ELSE UNCHANGED <<listening, pc, run_exit>>
    /\ UNCHANGED <<porcupine, on_transcript, audio, duration, elapsed>>

\* the duration budget is used up: break, finally
RunExpire ==
    /\ pc = "loop"
    /\ is_listening
    /\ Expired
    /\ RunFinally("expired")
    /\ UNCHANGED <<session, porcupine, on_transcript, audio, duration, elapsed, frames_read>>

\* KeyboardInterrupt in the loop: except KeyboardInterrupt, finally
RunInterrupt ==
    /\ pc = "loop"
    /\ RunFinally("interrupt")
    /\ UNCHANGED <<session, porcupine, on_transcript, audio, duration, elapsed, frames_read>>

\* mutant: the read error is swallowed and the loop goes on
RunReadError_swallowed ==
    /\ pc = "loop"
    /\ is_listening
    /\ ~Expired
    /\ stream = "open"
    /\ run_exit' = "error"
    /\ UNCHANGED <<session, porcupine, on_transcript, listening, audio, pc, duration,
                   elapsed, frames_read>>

\* stream.read raises (a device error other than overflow): finally, and the
\* exception leaves run()
RunReadError ==
    /\ pc = "loop"
    /\ is_listening
    /\ ~Expired
    /\ stream = "open"
    /\ RunFinally("error")
    /\ UNCHANGED <<session, porcupine, on_transcript, audio, duration, elapsed, frames_read>>

\* time passes while run() is in its loop
Tick ==
    /\ pc = "loop"
    /\ elapsed < MaxClock
    /\ elapsed' = elapsed + 1
    /\ UNCHANGED <<session, porcupine, on_transcript, listening, audio, pc, duration,
                   run_exit, frames_read>>

\* main() after run(): the finally clause calls stt.cleanup()
MainCleanup ==
    /\ pc \in {"run_returned", "run_raised"}
    /\ LET l == stop_listening(Listening)
       IN /\ stream' = l.stream
          /\ is_listening' = l.is_listening
          /\ open_streams' = l.open_streams
    /\ porcupine' = delete_porcupine(porcupine)
    /\ audio' = "terminated"
    /\ pc' = "exited"
    /\ UNCHANGED <<session, on_transcript, duration, elapsed, run_exit, frames_read>>

NextMain ==
    \/ MainConstruct
    \/ RunStart
    \/ RunIteration
    \/ RunExpire
    \/ RunInterrupt
    \/ RunReadError
    \/ Tick
    \/ MainCleanup

SpecMain == InitMain /\ [][NextMain]_vars

\* ------------------------------ a caller of the listening operations
\* the caller has the session and no call is under way
CallerHasControl == {"constructed", "run_returned", "run_raised"}

\* what start_listening, stop_listening and cleanup leave behind: the stream
\* fields and the record of the call; none of them touches the session fields
ListenCall(op, l) ==
    /\ stream' = l.stream
    /\ is_listening' = l.is_listening
    /\ open_streams' = l.open_streams
    /\ last' = [NoCall EXCEPT !.op = op, !.pre_active = is_active,
                              !.pre_buffer = audio_buffer, !.pre_stream = stream,
                              !.exc = l.exc]
    /\ UNCHANGED <<is_active, audio_buffer, quiet, asr_called, cb_called, track, history>>

StartListening ==
    /\ pc \in CallerHasControl
    /\ \E o \in OpenAsked(OpenOutcomes) :
         ListenCall("start_listening", start_listening(Listening, o))
    /\ UNCHANGED <<porcupine, on_transcript, audio, running, frames_read>>

StopListening ==
    /\ pc \in CallerHasControl
    /\ ListenCall("stop_listening", stop_listening(Listening))
    /\ UNCHANGED <<porcupine, on_transcript, audio, running, frames_read>>

\* cleanup: stop_listening(), porcupine.delete(), audio.terminate(). Deleting
\* a detector a second time frees its handle twice: the call returns or the
\* process dies, after stop_listening() has run
Cleanup ==
    /\ pc \in CallerHasControl
    /\ ListenCall("cleanup", stop_listening(Listening))
    /\ porcupine' = delete_porcupine(porcupine)
    /\ audio' = "terminated"
    /\ pc' \in (IF porcupine.exists /\ porcupine.deleted THEN {pc, "crashed"} ELSE {pc})
    /\ UNCHANGED <<on_transcript, duration, elapsed, run_exit, frames_read>>

\* run() may be called again after it has returned or raised
ListenRun == RunCall(CallerHasControl)

ListenIteration == RunIteration /\ frames_read < MaxListenFrames

NextListen ==
    \/ StartListening
    \/ StopListening
    \/ Cleanup
    \/ ListenRun
    \/ ListenIteration
    \/ RunExpire
    \/ RunInterrupt
    \/ RunReadError
    \/ Tick

SpecListen == Init /\ [][NextListen]_vars

\* ------------------------------------------------------------------ claims
ChunkCall == last.op = "process_audio_chunk"

\* the detector's answer in the last call, FALSE when it was not asked
WakeFound == \E i \in 1..Len(last.det) : last.det[i].result

\* the frames the last call held when it came to flush: those of a direct
\* _process_buffer call, or those of a process_audio_chunk call of an active
\* session whose buffer, the new frame included, reached the flush threshold
FlushInput ==
    IF last.op = "process_buffer" THEN last.pre_buffer
    ELSE IF /\ ChunkCall
            /\ last.pre_active
            /\ (Len(last.pre_buffer) + 1) * CHUNK_SIZE >= REALTIME_CHUNK_DURATION * SAMPLE_RATE
         THEN Append(last.pre_buffer, last.chunk)
         ELSE <<>>

\* Len(buf) * CHUNK_SIZE / SAMPLE_RATE seconds of audio are less than half a second
BelowMinLength(buf) == 2 * Len(buf) * CHUNK_SIZE < SAMPLE_RATE

SkippedFlush == FlushInput # <<>> /\ BelowMinLength(FlushInput)

\* two characters that differ at most in case
SameLetter(a, b) ==
    \/ a = b
    \/ a \in DOMAIN LowerOf /\ LowerOf[a] = b
    \/ b \in DOMAIN LowerOf /\ LowerOf[b] = a

\* text holds the sleep word somewhere, in some mix of cases
HasSleepWordAnyCase(text) ==
    \E i \in 0..(Len(text) - Len(SLEEP_WORD)) :
        \A k \in 1..Len(SLEEP_WORD) : SameLetter(text[i + k], SLEEP_WORD[k])

\* the engine answered w with a text that is more than whitespace
NonEmptyTranscript(w) == ~w.raises /\ \E i \in 1..Len(w.text) : w.text[i] \notin Whitespace

\* C1: as long as only process_audio_chunk has run and detect_wake_word has
\* answered False for every frame, the session is idle, the buffer is empty and
\* neither the transcription engine nor the callback has been invoked.
C1_NoWakeStaysIdle ==
    quiet => /\ ~is_active
             /\ audio_buffer = <<>>
             /\ ~asr_called
             /\ ~cb_called

C1_Witness ==
    /\ quiet
    /\ porcupine.exists
    /\ frames_read >= 3
    /\ Len(last.det) = 1

\* C2: in every reachable state an idle session has an empty buffer.
C2_BufferOnlyWhileActive == ~is_active => audio_buffer = <<>>

C2_Witness ==
    /\ ~is_active
    /\ last.pre_active
    /\ last.pre_buffer # <<>>

\* C3: a process_audio_chunk call on an idle session whose frame carries the
\* wake word returns with the session active and the buffer empty.
C3_WakeActivatesWithEmptyBuffer ==
    (ChunkCall /\ ~last.pre_active /\ WakeFound) => (is_active /\ audio_buffer = <<>>)

C3_Witness ==
    /\ ChunkCall
    /\ ~last.pre_active
    /\ WakeFound
    /\ is_active
    /\ last.chunk >= 2

\* C4: a process_audio_chunk call on an active session whose buffer, the new
\* frame included, reaches REALTIME_CHUNK_DURATION submits the whole buffer to
\* the transcription engine exactly once and returns with the buffer empty; a
\* call that stays below the threshold submits nothing and keeps the frames.
C4_OneFlushPerThreshold ==
    (ChunkCall /\ last.pre_active) =>
        LET buffered == Append(last.pre_buffer, last.chunk)
        IN IF Len(buffered) * CHUNK_SIZE >= REALTIME_CHUNK_DURATION * SAMPLE_RATE
           THEN /\ Len(last.asr) = 1
                /\ last.asr[1].audio_data = buffered
                /\ audio_buffer = <<>>
           ELSE /\ last.asr = <<>>
                /\ audio_buffer = buffered

C4_Witness ==
    /\ ChunkCall
    /\ last.pre_active
    /\ Len(last.asr) = 1
    /\ audio_buffer = <<>>

\* C5: after a flush with a non-empty transcript the buffer is empty, and the
\* session is idle if the transcript holds SLEEP_WORD in any mix of cases and
\* active if it does not.
C5_SleepWordAnyCase ==
    \A i \in 1..Len(last.asr) :
        NonEmptyTranscript(last.asr[i].w) =>
            /\ audio_buffer = <<>>
            /\ is_active = ~HasSleepWordAnyCase(last.asr[i].w.text)

C5_Witness ==
    /\ last.asr # <<>>
    /\ HasSleepWordAnyCase(last.asr[1].w.text)
    /\ ~str_contains(SLEEP_WORD, last.asr[1].w.text)
    /\ ~is_active

\* C6 as stated: a flush skipped for being shorter than MIN_AUDIO_LENGTH leaves
\* the buffered frames in audio_buffer.
C6_SkippedFlushKeepsFrames == SkippedFlush => audio_buffer = FlushInput

\* C6 amended: a flush skipped for being shorter than MIN_AUDIO_LENGTH has
\* discarded the buffered frames: audio_buffer is empty after it.
C6_SkippedFlushDropsFrames == SkippedFlush => audio_buffer = <<>>

C6_Witness ==
    /\ SkippedFlush
    /\ Len(FlushInput) = 15
    /\ audio_buffer = <<>>

\* C7: a flush of less than MIN_AUDIO_LENGTH of audio calls neither the
\* transcription engine nor the callback and leaves is_active as it was.
C7_ShortFlushIsSilent ==
    SkippedFlush => /\ last.asr = <<>>
                    /\ last.cb = <<>>
                    /\ is_active = last.pre_active

C7_Witness ==
    /\ SkippedFlush
    /\ last.pre_active
    /\ is_active
    /\ last.asr = <<>>

\* C8: when the model's transcribe raises during a flush, the call returns
\* without an exception, the callback is not invoked, is_active is what it was
\* before the flush and the buffer is empty.
C8_AsrFailureIsNoTranscript ==
    \A i \in 1..Len(last.asr) :
        last.asr[i].w.raises =>
            /\ last.exc = NoExc
            /\ last.cb = <<>>
            /\ is_active = last.pre_active
            /\ audio_buffer = <<>>

C8_Witness ==
    /\ ChunkCall
    /\ Len(last.asr) = 1
    /\ last.asr[1].w.raises
    /\ is_active

\* C9 as stated: when run() has returned or raised, the stream is closed and
\* the detector, when there is one, has been deleted.
C9_RunReleasesStreamAndDetector ==
    pc \in {"run_returned", "run_raised"} =>
        /\ stream = "none"
        /\ porcupine.exists => porcupine.deleted

\* C9 amended: when run() has returned or raised, on whichever exit path, the
\* stream is closed and is_listening is False; the detector is deleted by
\* cleanup(), which main() calls after run(): once main() has gone through its
\* finally clause with a session, stream is closed, the detector, when there
\* is one, is deleted and PyAudio is terminated.
C9_RunReleasesStream ==
    /\ pc \in {"run_returned", "run_raised"} => (stream = "none" /\ ~is_listening)
    /\ (pc = "exited" /\ audio # "none") =>
           /\ stream = "none"
           /\ ~is_listening
           /\ porcupine.exists => porcupine.deleted
           /\ audio = "terminated"

C9_Witness ==
    /\ pc = "run_raised"
    /\ run_exit = "error"
    /\ frames_read >= 1
    /\ porcupine.exists
    /\ ~porcupine.deleted

\* C11: a KeyboardInterrupt in the loop of run(), between two frames or inside
\* process_audio_chunk (in the detector or in the transcription), ends run()
\* by a return, never by an exception, with is_listening False and the stream
\* closed, as an expired budget does.
C11_InterruptIsNormalExit ==
    /\ (run_exit = "interrupt" \/ last.exc = "KeyboardInterrupt") =>
           /\ pc \in {"run_returned", "exited"}
           /\ run_exit = "interrupt"
           /\ stream = "none"
           /\ ~is_listening
    /\ run_exit = "expired" =>
           /\ pc \in {"run_returned", "exited"}
           /\ stream = "none"
           /\ ~is_listening

C11_Witness ==
    /\ pc = "run_returned"
    /\ last.exc = "KeyboardInterrupt"
    /\ Len(last.asr) = 1

\* C12: once stream.read has raised in run(), run() has ended with the
\* exception going to its caller and the stream closed, and no step after the
\* error reads or processes a frame.
C12_ReadErrorIsFatal ==
    [][run_exit' = "error" =>
          /\ pc' \in {"run_raised", "exited"}
          /\ stream' = "none"
          /\ ~is_listening'
          /\ run_exit = "error" => (frames_read' = frames_read /\ last' = last)]_vars

C12_Witness ==
    /\ run_exit = "error"
    /\ pc = "run_raised"
    /\ is_active
    /\ audio_buffer # <<>>

\* porcupine.process raised an Exception in the call c
DetectorRaised(c) ==
    \E i \in 1..Len(c.det) : c.det[i].d.raises /\ ~c.det[i].d.interrupt

\* C13: when the detector raises for a frame, detect_wake_word answers False,
\* process_audio_chunk returns without an exception and the session is idle
\* with an empty buffer; the frame after it is submitted to the detector again
\* and activates the session when it carries the wake word.
C13_DetectorFailureIsNotDetected ==
    [][porcupine.exists =>
          /\ DetectorRaised(last') =>
                 /\ \A i \in 1..Len(last'.det) : ~last'.det[i].result
                 /\ last'.exc = NoExc
                 /\ ~is_active'
                 /\ audio_buffer' = <<>>
          /\ (DetectorRaised(last) /\ ~is_active /\ last'.op = "process_audio_chunk") =>
                 /\ Len(last'.det) = 1
                 /\ last'.det[1].chunk = last'.chunk
                 /\ (~last'.det[1].d.raises /\ last'.det[1].d.keyword_index >= 0) => is_active'
         ]_vars

C13_Witness ==
    /\ porcupine.exists
    /\ ChunkCall
    /\ DetectorRaised(last)
    /\ ~is_active
    /\ frames_read >= 2
    /\ frames_read < MaxFrames

\* the greatest frame of S, 0 when S is empty
LatestOf(S) == IF S = {} THEN 0 ELSE CHOOSE x \in S : \A y \in S : y <= x

\* C14: with CHUNK_SIZE 512, SAMPLE_RATE 16000 and REALTIME_CHUNK_DURATION 2, a
\* process_audio_chunk call flushes when its frame is the 63rd since the
\* activation, or the 63rd since the previous flush of the same active period;
\* the flush submits these 63 frames, never fewer than 62.
C14_FlushEvery63Frames ==
    [][(last'.op = "process_audio_chunk" /\ last'.asr # <<>>) =>
          LET a == last'.asr[1].audio_data
              previous == LatestOf(history.once)
              base == IF previous > history.woke_at THEN previous ELSE history.woke_at
          IN /\ Len(last'.asr) = 1
             /\ Len(a) >= 62
             /\ Len(a) = 63
             /\ a[Len(a)] = last'.chunk
             /\ last'.chunk = base + 63]_vars

C14_Witness ==
    /\ ChunkCall
    /\ Len(last.asr) = 1
    /\ last.chunk = 126
    /\ last.pre_active
    /\ history.once = 1..126

\* text without its leading and trailing whitespace
Trimmed(text) ==
    LET solid == {i \in 1..Len(text) : text[i] \notin Whitespace}
    IN IF solid = {} THEN <<>>
       ELSE SubSeq(text, CHOOSE i \in solid : \A j \in solid : i <= j,
                         CHOOSE i \in solid : \A j \in solid : j <= i)

\* the last call flushed, and the engine gave a non-empty transcript
FlushGaveTranscript ==
    /\ FlushInput # <<>>
    /\ ~BelowMinLength(FlushInput)
    /\ Len(last.asr) = 1
    /\ NonEmptyTranscript(last.asr[1].w)

\* C15: with a callback supplied, a flush that yields a non-empty transcript
\* calls on_transcript exactly once, with that transcript, also when it holds
\* the sleep word; a call that yields no transcript (no flush, too little
\* audio, a failing engine, an empty or blank text) does not call it.
C15_CallbackOncePerTranscript ==
    on_transcript =>
        IF FlushGaveTranscript
        THEN /\ Len(last.cb) = 1
             /\ last.cb[1].text = Trimmed(last.asr[1].w.text)
        ELSE last.cb = <<>>

C15_Witness ==
    /\ on_transcript
    /\ FlushGaveTranscript
    /\ Len(last.cb) = 1
    /\ HasSleepWordAnyCase(last.cb[1].text)
    /\ Len(last.cb[1].text) < Len(last.asr[1].w.text)

\* C19: the callback sees the session as the sleep-word test left it: idle
\* with an empty buffer for a transcript that holds the sleep word, active with
\* an empty buffer for any other.
C19_CallbackAfterDeactivation ==
    \A i \in 1..Len(last.cb) :
        /\ last.cb[i].audio_buffer = <<>>
        /\ last.cb[i].is_active = ~HasSleepWordAnyCase(last.cb[i].text)

C19_Witness ==
    /\ Len(last.cb) = 1
    /\ HasSleepWordAnyCase(last.cb[1].text)
    /\ ~last.cb[1].is_active
    /\ last.pre_active

\* C16 as stated: for a duration that is not None, once the elapsed time is
\* over the budget the loop of run() reads no further frame: the steps left to
\* it are the passing of time and the return of run() with the stream closed.
C16_BudgetEndsTheLoop ==
    [][(pc = "loop" /\ ~duration.is_none /\ elapsed > duration.value) =>
          /\ frames_read' = frames_read
          /\ pc' \in {"loop", "run_returned"}
          /\ pc' = "run_returned" => stream' = "none"]_vars

\* C17: a frame given to an idle session goes to the wake-word detector and
\* nowhere else: it is neither buffered nor submitted, also when it activates
\* the session; a frame given to an active session is appended to the buffer
\* (and flushed with it when the buffer is due) and the detector is not asked.
C17_OnePathPerFrame ==
    ChunkCall =>
        IF ~last.pre_active
        THEN /\ Len(last.det) = 1
             /\ last.det[1].chunk = last.chunk
             /\ audio_buffer = <<>>
             /\ last.asr = <<>>
        ELSE /\ last.det = <<>>
             /\ \/ audio_buffer = Append(last.pre_buffer, last.chunk) /\ last.asr = <<>>
                \/ /\ audio_buffer = <<>>
                   /\ Len(last.asr) = 1
                   /\ last.asr[1].audio_data = Append(last.pre_buffer, last.chunk)

C17_Witness ==
    /\ ChunkCall
    /\ last.pre_active
    /\ last.det = <<>>
    /\ porcupine.exists
    /\ Len(audio_buffer) >= 2

\* C18: over a stream of frames with wake/sleep cycles, no frame is submitted
\* to the transcription engine twice; the frames of a submission are
\* consecutive frames of the stream in the order of their arrival; and all of
\* them arrived after the latest activation, so none was buffered before a
\* deactivation that precedes it.
C18_FramesSubmittedOnceInOrder ==
    [][/\ history'.again = {}
       /\ \A i \in 1..Len(last'.asr) :
             LET a == last'.asr[i].audio_data
             IN /\ \A k \in 1..(Len(a) - 1) : a[k + 1] = a[k] + 1
                /\ \A k \in 1..Len(a) : a[k] \notin history.once
                /\ a[1] > history.woke_at]_vars

C18_Witness ==
    /\ ChunkCall
    /\ Len(last.asr) = 1
    /\ is_active
    /\ history.woke_at = 63
    /\ history.once = 1..126

\* C20: under any sequence of start_listening, stop_listening, run and cleanup
\* calls at most one stream is open at the device, and it is the one
\* self.stream refers to; a stream is opened only when self.stream is None and
\* closed only when there is one, so a second start_listening opens nothing
\* and a stop_listening on a closed stream closes nothing; start_listening
\* and stop_listening leave is_active and audio_buffer as they were.
C20_ListeningIsIdempotent ==
    [][/\ open_streams' = (IF stream' = "open" THEN 1 ELSE 0)
       /\ open_streams' > open_streams => stream = "none"
       /\ open_streams' < open_streams => stream = "open"
       /\ (last'.op = "start_listening" /\ pc \in CallerHasControl /\ UNCHANGED running) =>
             /\ is_active' = is_active /\ audio_buffer' = audio_buffer
             /\ last'.exc = NoExc => is_listening'
             /\ stream = "open" => (stream' = "open" /\ open_streams' = open_streams)
       /\ (last'.op = "stop_listening" /\ pc \in CallerHasControl /\ UNCHANGED running) =>
             /\ is_active' = is_active /\ audio_buffer' = audio_buffer
             /\ stream' = "none" /\ ~is_listening'
             /\ stream = "none" => open_streams' = open_streams]_vars

C20_Witness ==
    /\ last.op = "start_listening"
    /\ last.pre_stream = "open"
    /\ stream = "open"
    /\ open_streams = 1
    /\ is_active
    /\ audio_buffer # <<>>
    /\ run_exit # "none"

\* C10: when pvporcupine.create failed in the constructor, the session exists,
\* detect_wake_word answers False for every frame, and a step that takes the
\* session from idle to active is an explicit activate() call.
C10_NoDetectorNoWake ==
    [][~porcupine.exists =>
          /\ \A i \in 1..Len(last'.det) : ~last'.det[i].result
          /\ (~is_active /\ is_active') => last'.op = "activate"]_vars

C10_Witness ==
    /\ ~porcupine.exists
    /\ ChunkCall
    /\ Len(last.det) = 1
    /\ frames_read >= 3
    /\ ~is_active

====
